---------------------------- MODULE Spec2Model ----------------------------
(***************************************************************************)
(* calcCoin: an express server with a fee calculator (POST /api/calc), an  *)
(* FX converter backed by the FioogAPI scraper (POST /api/convert) and a   *)
(* coin price proxy backed by CoinGecko (GET /api/coins/latest).           *)
(*                                                                         *)
(* The handlers share no mutable state, so the model follows one request   *)
(* at a time: the request, the handler's position, the upstream requests   *)
(* it has issued and the responses it has sent.  The repository also keeps *)
(* the server of the static rate table, whose /api/calc is the same code   *)
(* and whose /api/convert is the route "convertStatic" here.  The snapshot *)
(* route GET /api/fx/latest is not modelled.                               *)
(*                                                                         *)
(* Numbers.  JSON numbers and numeric strings are decimals n / 10^k.       *)
(* /api/calc is computed in exact decimal arithmetic.  /api/convert is     *)
(* computed in IEEE-754 binary64 (JavaScript Number): a 53 bit significand *)
(* held as a sequence of bits, products and quotients rounded to nearest,  *)
(* ties to even.  The exponent is unbounded: the model's values stay far   *)
(* from overflow and from the subnormal range.                             *)
(***************************************************************************)
EXTENDS Integers, Sequences, FiniteSets, TLC

\* ------------------------------------------------------------------------
\* Bounds of the model
\* ------------------------------------------------------------------------
\* longest string given as principal
MaxStrLen == 3
\* longest string given as marketValue
MaxShortLen == 1
\* JSON numbers given as principal are n / 10^k, n in -1..MaxNum, k in 0..MaxScale
MaxNum == 105
MaxScale == 2
\* upstream quotes are n / 10^k, n in 1..MaxQuote, k in 0..MaxQuoteScale
MaxQuote == 10
MaxQuoteScale == 2

\* ------------------------------------------------------------------------
\* Natural numbers of any size: sequences of bits, least significant first
\* ------------------------------------------------------------------------
RECURSIVE NatBits(_)
NatBits(n) == IF n = 0 THEN <<>> ELSE <<n % 2>> \o NatBits(n \div 2)

Bit(a, i) == IF i >= 1 /\ i <= Len(a) THEN a[i] ELSE 0

Zeros(n) == [i \in 1..n |-> 0]

\* the number of zero bits at the top of a
HighZeros(a) ==
    CHOOSE z \in 0..Len(a) :
        /\ z = Len(a) \/ a[Len(a) - z] = 1
        /\ \A j \in 1..z : a[Len(a) - j + 1] = 0

\* a without the zero bits at its top
Trim(a) == SubSeq(a, 1, Len(a) - HighZeros(a))

Shl(a, s) == IF a = <<>> THEN <<>> ELSE Zeros(s) \o a

\* The carry chains below split their range in two halves, the carry of the
\* low half entering the high half, which keeps the nesting logarithmic.

\* bits lo..hi of a + b + c, and the carry out of them
RECURSIVE AddRange(_, _, _, _, _)
AddRange(a, b, lo, hi, c) ==
    IF lo > hi THEN [bits |-> <<>>, c |-> c]
    ELSE IF lo = hi
    THEN LET v == Bit(a, lo) + Bit(b, lo) + c
         IN  [bits |-> <<v % 2>>, c |-> v \div 2]
    ELSE LET mid  == (lo + hi) \div 2
             low  == AddRange(a, b, lo, mid, c)
             high == AddRange(a, b, mid + 1, hi, low.c)
         IN  [bits |-> low.bits \o high.bits, c |-> high.c]

BigAdd(a, b) ==
    LET n == IF Len(a) > Len(b) THEN Len(a) ELSE Len(b)
        x == AddRange(a, b, 1, n, 0)
    IN  IF x.c = 1 THEN Append(x.bits, 1) ELSE x.bits

\* bits lo..hi of a - b - c, and the borrow out of them
RECURSIVE SubRange(_, _, _, _, _)
SubRange(a, b, lo, hi, c) ==
    IF lo > hi THEN [bits |-> <<>>, c |-> c]
    ELSE IF lo = hi
    THEN LET v == Bit(a, lo) - Bit(b, lo) - c
         IN  [bits |-> <<v % 2>>, c |-> IF v < 0 THEN 1 ELSE 0]
    ELSE LET mid  == (lo + hi) \div 2
             low  == SubRange(a, b, lo, mid, c)
             high == SubRange(a, b, mid + 1, hi, low.c)
         IN  [bits |-> low.bits \o high.bits, c |-> high.c]

\* a - b for a >= b
BigSub(a, b) == Trim(SubRange(a, b, 1, Len(a), 0).bits)

\* a >= b for trimmed a and b: decided by the highest bit where they differ
BigGe(a, b) ==
    IF Len(a) # Len(b) THEN Len(a) > Len(b)
    ELSE \A i \in 1..Len(a) :
            a[i] < b[i] => \E j \in (i + 1)..Len(a) : a[j] > b[j]

\* a times the bits lo..hi of b: the sum of a shifted to each set bit
RECURSIVE MulRange(_, _, _, _)
MulRange(a, b, lo, hi) ==
    IF lo > hi THEN <<>>
    ELSE IF lo = hi THEN (IF b[lo] = 1 THEN Shl(a, lo - 1) ELSE <<>>)
    ELSE LET mid == (lo + hi) \div 2
         IN  BigAdd(MulRange(a, b, lo, mid), MulRange(a, b, mid + 1, hi))

BigMul(a, b) == Trim(MulRange(a, b, 1, Len(b)))

Reverse(a) == [i \in 1..Len(a) |-> a[Len(a) + 1 - i]]

\* long division by d # 0 over the bits hi..lo of a, highest first, entered
\* with the remainder r: the quotient's bits for them, highest first, and the
\* remainder left
RECURSIVE DivRange(_, _, _, _, _)
DivRange(a, d, hi, lo, r) ==
    IF hi < lo THEN [q |-> <<>>, r |-> r]
    ELSE IF hi = lo
    THEN LET r2 == IF r = <<>> /\ a[hi] = 0 THEN <<>> ELSE <<a[hi]>> \o r
         IN  IF BigGe(r2, d)
             THEN [q |-> <<1>>, r |-> BigSub(r2, d)]
             ELSE [q |-> <<0>>, r |-> r2]
    ELSE LET mid  == (lo + hi) \div 2
             high == DivRange(a, d, hi, mid + 1, r)
             low  == DivRange(a, d, mid, lo, high.r)
         IN  [q |-> high.q \o low.q, r |-> low.r]

\* quotient and remainder of a by d # 0
BigDivMod(a, d) ==
    LET x == DivRange(a, d, Len(a), 1, <<>>)
    IN  [q |-> Trim(Reverse(x.q)), r |-> x.r]

\* ------------------------------------------------------------------------
\* JavaScript values
\* ------------------------------------------------------------------------
\* undefined: a key the object does not have
Undef == [t |-> "undefined"]
\* JSON null
Null == [t |-> "null"]
\* a string: its characters
Str(chars) == [t |-> "string", s |-> chars]
\* a decimal number n / 10^k: a JSON number, or the number a numeric string spells
NaN == [t |-> "NaN"]

RECURSIVE Pow10(_)
Pow10(k) == IF k = 0 THEN 1 ELSE 10 * Pow10(k - 1)

\* the decimal n / 10^k without trailing zeros in the fraction
RECURSIVE Dec(_, _)
Dec(n, k) == IF k > 0 /\ n % 10 = 0 THEN Dec(n \div 10, k - 1)
             ELSE [t |-> "number", n |-> n, k |-> k]

IsNum(v) == v.t = "number"

\* exact decimal arithmetic
DecMul(a, b) == Dec(a.n * b.n, a.k + b.k)
DecAdd(a, b) == LET k == IF a.k > b.k THEN a.k ELSE b.k
                IN  Dec(a.n * Pow10(k - a.k) + b.n * Pow10(k - b.k), k)
DecSub(a, b) == DecAdd(a, Dec(0 - b.n, b.k))
DecLt(a, b)  == a.n * Pow10(b.k) < b.n * Pow10(a.k)
DecLe(a, b)  == a.n * Pow10(b.k) <= b.n * Pow10(a.k)

RECURSIVE Gcd(_, _)
Gcd(a, b) == IF b = 0 THEN a ELSE Gcd(b, a % b)

\* the exact quotient a / b of two decimals, b > 0, in lowest terms:
\* (p / q) * 10^e with p and q coprime and neither a multiple of ten
RECURSIVE StripTens(_, _)
StripTens(n, e) == IF n # 0 /\ n % 10 = 0 THEN StripTens(n \div 10, e + 1)
                   ELSE <<n, e>>

DecDiv(a, b) ==
    LET abs == IF a.n < 0 THEN 0 - a.n ELSE a.n
        g   == Gcd(abs, b.n)
        p   == StripTens(a.n \div g, 0)
        q   == StripTens(b.n \div g, 0)
    IN  [t |-> "quotient", num |-> p[1], den |-> q[1],
         e |-> (b.k - a.k) + p[2] - q[2]]

\* ------------------------------------------------------------------------
\* Number.prototype.toString and parseFloat
\* ------------------------------------------------------------------------
Digits == <<"0", "1", "2", "3", "4", "5", "6", "7", "8", "9">>
IsDigit(c) == \E d \in 1..10 : Digits[d] = c
DigitVal(c) == (CHOOSE d \in 1..10 : Digits[d] = c) - 1

RECURSIVE NatStr(_)
NatStr(n) == IF n < 10 THEN <<Digits[n + 1]>>
             ELSE NatStr(n \div 10) \o <<Digits[(n % 10) + 1]>>

\* the k digits of the fraction f / 10^k
RECURSIVE FracStr(_, _)
FracStr(f, k) == IF k = 0 THEN <<>>
                 ELSE FracStr(f \div 10, k - 1) \o <<Digits[(f % 10) + 1]>>

\* String(x) for a decimal number: "-1", "10", "1.05", "0.5"
NumToString(d) ==
    LET abs == IF d.n < 0 THEN 0 - d.n ELSE d.n
        p   == Pow10(d.k)
    IN  (IF d.n < 0 THEN <<"-">> ELSE <<>>)
        \o NatStr(abs \div p)
        \o (IF d.k = 0 THEN <<>> ELSE <<".">> \o FracStr(abs % p, d.k))

\* the number of digits of s from position i on
RECURSIVE DigitRun(_, _)
DigitRun(s, i) == IF i <= Len(s) /\ IsDigit(s[i]) THEN 1 + DigitRun(s, i + 1) ELSE 0

\* the value of the digits s[i..j]
RECURSIVE DigitsVal(_, _, _)
DigitsVal(s, i, j) == IF j < i THEN 0
                      ELSE 10 * DigitsVal(s, i, j - 1) + DigitVal(s[j])

\* parseFloat of a string: the longest prefix [-]digits[.digits] or [-].digits,
\* NaN when there is none
ParseFloatStr(s) ==
    LET neg   == Len(s) >= 1 /\ s[1] = "-"
        start == IF neg THEN 2 ELSE 1
        ni    == DigitRun(s, start)
        dot   == start + ni
        nf    == IF dot <= Len(s) /\ s[dot] = "." THEN DigitRun(s, dot + 1) ELSE 0
        abs   == DigitsVal(s, start, start + ni - 1) * Pow10(nf)
                 + DigitsVal(s, dot + 1, dot + nf)
    IN  IF ni = 0 /\ nf = 0 THEN NaN
        ELSE Dec(IF neg THEN 0 - abs ELSE abs, nf)

\* parseFloat(v): v is converted to a string first
parseFloat(v) ==
    CASE v.t = "string" -> ParseFloatStr(v.s)
      [] v.t = "number" -> ParseFloatStr(NumToString(v))
      [] OTHER          -> NaN


\* ------------------------------------------------------------------------
\* IEEE-754 binary64, the JavaScript Number
\* ------------------------------------------------------------------------
\* bits of the significand
MantBits == 53

\* a finite non-zero double: (-1)^neg * m * 2^e, m a significand of MantBits
\* bits whose top bit is set
F64(neg, m, e) == [t |-> "f64", neg |-> neg, m |-> m, e |-> e]
Zero == [t |-> "f64zero"]
Infinity(neg) == [t |-> "Infinity", neg |-> neg]

\* the bits of a below position i hold a one
AnyBelow(a, i) == \E j \in 1..(i - 1) : a[j] = 1

\* n * 2^e (plus a fraction of the last bit when sticky) rounded to nearest,
\* ties to even
RoundF64(neg, n, e, sticky) ==
    LET len == Len(n)
    IN  IF len = 0 THEN Zero
        ELSE IF len <= MantBits
        THEN F64(neg, Zeros(MantBits - len) \o n, e - (MantBits - len))
        ELSE LET drop  == len - MantBits
                 kept  == SubSeq(n, drop + 1, len)
                 guard == n[drop]
                 rest  == sticky \/ AnyBelow(n, drop)
                 up    == guard = 1 /\ (rest \/ kept[1] = 1)
                 m     == IF up THEN BigAdd(kept, <<1>>) ELSE kept
             IN  IF Len(m) > MantBits
                 THEN F64(neg, SubSeq(m, 2, Len(m)), e + drop + 1)
                 ELSE F64(neg, m, e + drop)

\* the number of zero bits at the bottom of a, and a without them
LowZeros(a) ==
    CHOOSE z \in 0..Len(a) :
        /\ z = Len(a) \/ a[z + 1] = 1
        /\ \A j \in 1..z : a[j] = 0
Odd(a) == SubSeq(a, LowZeros(a) + 1, Len(a))

\* the double nearest to the decimal d (JSON.parse, parseFloat)
F64FromDec(d) ==
    IF d.n = 0 THEN Zero
    ELSE LET neg == d.n < 0
             n   == NatBits(IF neg THEN 0 - d.n ELSE d.n)
             den == NatBits(Pow10(d.k))
             s   == MantBits + 2 + Len(den)
             qr  == BigDivMod(Shl(n, s), den)
         IN  IF d.k = 0 THEN RoundF64(neg, n, 0, FALSE)
             ELSE RoundF64(neg, qr.q, 0 - s, qr.r # <<>>)

One == F64FromDec(Dec(1, 0))

\* x * y for finite non-zero doubles
F64Mul(x, y) ==
    LET a == Odd(x.m)
        b == Odd(y.m)
        p == IF Len(a) >= Len(b) THEN BigMul(a, b) ELSE BigMul(b, a)
    IN  RoundF64(x.neg # y.neg, p, x.e + y.e + LowZeros(x.m) + LowZeros(y.m), FALSE)

\* x / y for finite non-zero doubles
F64Div(x, y) ==
    LET a  == Odd(x.m)
        b  == Odd(y.m)
        s  == MantBits + 2 + Len(b)
        qr == BigDivMod(Shl(a, s), b)
    IN  RoundF64(x.neg # y.neg, qr.q,
                 (x.e + LowZeros(x.m)) - (y.e + LowZeros(y.m)) - s, qr.r # <<>>)


\* ------------------------------------------------------------------------
\* JavaScript operators on values
\* ------------------------------------------------------------------------
\* JSON.parse of a JSON value: a JSON number becomes the nearest double
FromJson(v) == IF v.t = "number" THEN F64FromDec(v) ELSE v

\* typeof v === "number"
IsNumber(v) == v.t \in {"f64", "f64zero", "NaN", "Infinity"}

\* !v
Falsy(v) ==
    \/ v.t \in {"undefined", "null", "NaN", "f64zero"}
    \/ v.t = "string" /\ v.s = <<>>
    \/ v.t = "number" /\ v.n = 0

\* Number(s) of a string: the whole string must spell the number, "" is 0
StringToNumber(s) ==
    LET neg   == Len(s) >= 1 /\ s[1] = "-"
        start == IF neg THEN 2 ELSE 1
        ni    == DigitRun(s, start)
        dot   == start + ni
        hasDot == dot <= Len(s) /\ s[dot] = "."
        nf    == IF hasDot THEN DigitRun(s, dot + 1) ELSE 0
        used  == (start - 1) + ni + (IF hasDot THEN 1 + nf ELSE 0)
    IN  IF s = <<>> THEN Zero
        ELSE IF used = Len(s) THEN FromJson(ParseFloatStr(s))
        ELSE NaN

\* ToNumber(v), the conversion * and / apply to their operands
ToNumber(v) ==
    CASE v.t = "undefined" -> NaN
      [] v.t = "null"      -> Zero
      [] v.t = "string"    -> StringToNumber(v.s)
      [] OTHER             -> v

\* isNaN(v)
isNaN(v) == ToNumber(v).t = "NaN"

\* a * b
JsMul(a, b) ==
    LET x == ToNumber(a)
        y == ToNumber(b)
    IN  CASE x.t = "NaN" \/ y.t = "NaN" -> NaN
          [] x.t = "Infinity" ->
                IF y.t = "f64zero" THEN NaN ELSE Infinity(x.neg # y.neg)
          [] y.t = "Infinity" ->
                IF x.t = "f64zero" THEN NaN ELSE Infinity(x.neg # y.neg)
          [] x.t = "f64zero" \/ y.t = "f64zero" -> Zero
          [] OTHER -> F64Mul(x, y)

\* a / b (the model has one zero, +0)
JsDiv(a, b) ==
    LET x == ToNumber(a)
        y == ToNumber(b)
    IN  CASE x.t = "NaN" \/ y.t = "NaN" -> NaN
          [] x.t = "Infinity" ->
                IF y.t = "Infinity" THEN NaN
                ELSE Infinity(IF y.t = "f64zero" THEN x.neg ELSE x.neg # y.neg)
          [] y.t = "Infinity" -> Zero
          [] y.t = "f64zero" ->
                IF x.t = "f64zero" THEN NaN ELSE Infinity(x.neg)
          [] x.t = "f64zero" -> Zero
          [] OTHER -> F64Div(x, y)

Lowers == <<"a", "b", "c", "d", "e", "f", "g", "h", "i", "j", "k", "l", "m",
            "n", "o", "p", "q", "r", "s", "t", "u", "v", "w", "x", "y", "z">>
Uppers == <<"A", "B", "C", "D", "E", "F", "G", "H", "I", "J", "K", "L", "M",
            "N", "O", "P", "Q", "R", "S", "T", "U", "V", "W", "X", "Y", "Z">>

\* String.prototype.toUpperCase
toUpperCase(s) ==
    [i \in 1..Len(s) |->
        IF \E j \in 1..26 : Lowers[j] = s[i]
        THEN Uppers[CHOOSE j \in 1..26 : Lowers[j] = s[i]]
        ELSE s[i]]

\* ------------------------------------------------------------------------
\* Configuration
\* ------------------------------------------------------------------------
COMMISSION_RATE == Dec(3, 2)
PLATFORM_FEE == Dec(99, 2)
GST_RATE == Dec(9, 2)
MIN_PRINCIPAL == Dec(10, 0)

\* friendly coin symbol -> CoinGecko id
COINS == [usdt |-> "tether", eth |-> "ethereum", usdc |-> "usd-coin", sol |-> "solana"]
Symbols == DOMAIN COINS
CoinIds == {COINS[c] : c \in Symbols}

USD == <<"U", "S", "D">>
BTN == <<"B", "T", "N">>
SGD == <<"S", "G", "D">>

\* ------------------------------------------------------------------------
\* Responses
\* ------------------------------------------------------------------------
\* res.status(400).json({ ok: false, message })
Rejected(message) == [status |-> 400, ok |-> FALSE, message |-> message]
\* res.status(500).json({ ok: false, message, error })
Failed(message, error) ==
    [status |-> 500, ok |-> FALSE, message |-> message, error |-> error]
\* res.json({ ok: true, data })
Answered(data) == [status |-> 200, ok |-> TRUE, data |-> data]

InvalidNumbersMsg == "Please enter valid positive numbers."
BelowMinimumMsg == "Minimum principal is 10.00."
FeesExceedMsg == "Fees are higher than the principal. Increase the principal amount."
InvalidAmountMsg == "Please enter a valid amount."
MissingCurrencyMsg == "Both 'from' and 'to' currencies are required."
FxFailedMsg == "Failed to fetch live FX rate from FioogAPI."
CoinsFailedMsg == "Failed to load live coin prices."

\* ------------------------------------------------------------------------
\* POST /api/calc
\* ------------------------------------------------------------------------
\* FeeBreakdown with the fixed fee charged on top: totalCharged also adds
\* totalFixedFee
FeeBreakdownFeesCharged(P, MV) ==
    LET gstAmount        == DecMul(PLATFORM_FEE, GST_RATE)
        totalFixedFee    == DecAdd(PLATFORM_FEE, gstAmount)
        commissionAmount == DecMul(P, COMMISSION_RATE)
        amountForCrypto  == DecSub(DecSub(P, commissionAmount), totalFixedFee)
    IN  [gstAmount        |-> gstAmount,
         totalFixedFee    |-> totalFixedFee,
         commissionAmount |-> commissionAmount,
         amountForCrypto  |-> amountForCrypto,
         coins            |-> DecDiv(amountForCrypto, MV),
         totalCharged     |-> DecAdd(DecAdd(P, commissionAmount), totalFixedFee)]

\* lines 125-129 and 138-139: the fee breakdown of a principal P bought at MV
FeeBreakdown(P, MV) ==
    LET gstAmount        == DecMul(PLATFORM_FEE, GST_RATE)
        totalFixedFee    == DecAdd(PLATFORM_FEE, gstAmount)
        commissionAmount == DecMul(P, COMMISSION_RATE)
        amountForCrypto  == DecSub(DecSub(P, commissionAmount), totalFixedFee)
    IN  [gstAmount        |-> gstAmount,
         totalFixedFee    |-> totalFixedFee,
         commissionAmount |-> commissionAmount,
         amountForCrypto  |-> amountForCrypto,
         coins            |-> DecDiv(amountForCrypto, MV),
         totalCharged     |-> DecAdd(P, commissionAmount)]

\* res.json({ ok: true, data }) of lines 141-156
CalcAnswer(P, MV, fee) ==
    Answered([principal        |-> P,
              marketValue      |-> MV,
              commissionRate   |-> COMMISSION_RATE,
              commissionAmount |-> fee.commissionAmount,
              platformFee      |-> PLATFORM_FEE,
              gstAmount        |-> fee.gstAmount,
              totalFixedFee    |-> fee.totalFixedFee,
              amountForCrypto  |-> fee.amountForCrypto,
              coins            |-> fee.coins,
              totalCharged     |-> fee.totalCharged,
              minPrincipal     |-> MIN_PRINCIPAL])

\* CalcHandler with the fee check of line 130 ahead of the minimum check of
\* line 118
CalcHandlerFeesFirst(body) ==
    LET P   == parseFloat(body.principal)
        MV  == parseFloat(body.marketValue)
        fee == FeeBreakdown(P, MV)
    IN  IF P.t = "NaN" \/ MV.t = "NaN" \/ P.n <= 0 \/ MV.n <= 0
        THEN [res |-> Rejected(InvalidNumbersMsg), divided |-> FALSE]
        ELSE IF fee.amountForCrypto.n <= 0
        THEN [res |-> Rejected(FeesExceedMsg), divided |-> FALSE]
        ELSE IF DecLt(P, MIN_PRINCIPAL)
        THEN [res |-> Rejected(BelowMinimumMsg), divided |-> FALSE]
        ELSE [res |-> CalcAnswer(P, MV, fee), divided |-> TRUE]

\* the handler's result for a body: the response, and whether line 138
\* (the division by MV) was executed
CalcHandler(body) ==
    LET P   == parseFloat(body.principal)
        MV  == parseFloat(body.marketValue)
        fee == FeeBreakdown(P, MV)
    IN  IF P.t = "NaN" \/ MV.t = "NaN" \/ P.n <= 0 \/ MV.n <= 0
        THEN [res |-> Rejected(InvalidNumbersMsg), divided |-> FALSE]
        ELSE IF DecLt(P, MIN_PRINCIPAL)
        THEN [res |-> Rejected(BelowMinimumMsg), divided |-> FALSE]
        ELSE IF fee.amountForCrypto.n <= 0
        THEN [res |-> Rejected(FeesExceedMsg), divided |-> FALSE]
        ELSE [res |-> CalcAnswer(P, MV, fee), divided |-> TRUE]

\* ------------------------------------------------------------------------
\* Upstream replies
\* ------------------------------------------------------------------------
\* What a fetch can settle to: the request fails ("neterr"), the status is not
\* 2xx ("status"), the body is not JSON ("badjson"), or the body is the JSON
\* value data.  A JSON object is given by the members the handlers read.
NetworkError == [kind |-> "neterr"]
BadStatus    == [kind |-> "status"]
BadJson      == [kind |-> "badjson"]
Json(data)   == [kind |-> "json", data |-> data]
NoReply      == [kind |-> "none"]

\* a FioogAPI body whose price member (data.price for /quote,
\* data.pairs["BTN/SGD"].price for /fx) is v, Undef when a key is missing
Quote(v) == [t |-> "object", price |-> v]

\* a function's outcome: the value it returns or the message of the Error thrown
Return(v)  == [threw |-> FALSE, value |-> v]
Throw(msg) == [threw |-> TRUE, error |-> msg]

\* ------------------------------------------------------------------------
\* getFxRateFromFioog
\* ------------------------------------------------------------------------
\* the branch taken for the upper-cased pair (lines 50, 53, 60, 68, 75, 83, 101)
FxBranch(F, T) ==
    IF F = T THEN "identity"
    ELSE IF F = USD /\ T = BTN THEN "USD-BTN"
    ELSE IF F = USD /\ T = SGD THEN "USD-SGD"
    ELSE IF F = BTN /\ T = USD THEN "BTN-USD"
    ELSE IF F = SGD /\ T = USD THEN "SGD-USD"
    ELSE IF F = BTN /\ T = SGD THEN "BTN-SGD"
    ELSE IF F = SGD /\ T = BTN THEN "SGD-BTN"
    ELSE "unsupported"

\* the URL a branch fetches
FxUrl(branch) ==
    IF branch \in {"USD-BTN", "BTN-USD"} THEN "https://figoogapi.onrender.com/quote/USD-BTN"
    ELSE IF branch \in {"USD-SGD", "SGD-USD"} THEN "https://figoogapi.onrender.com/quote/USD-SGD"
    ELSE "https://figoogapi.onrender.com/fx"

\* the message thrown when res.ok is false
FxStatusError(branch) ==
    IF branch \in {"USD-BTN", "BTN-USD"} THEN "FioogAPI error for USD-BTN"
    ELSE IF branch \in {"USD-SGD", "SGD-USD"} THEN "FioogAPI error for USD-SGD"
    ELSE "FioogAPI error for /fx"

\* FxRateOf with the inverse directions halving the price instead of taking
\* its reciprocal
FxRateOfHalved(branch, price) ==
    IF branch \in {"USD-BTN", "USD-SGD"} THEN Return(price)
    ELSE IF branch \in {"BTN-USD", "SGD-USD"}
    THEN Return(JsDiv(price, FromJson(Dec(2, 0))))
    ELSE IF ~IsNumber(price) \/ isNaN(price)
    THEN Throw("BTN/SGD rate missing in /fx")
    ELSE IF branch = "BTN-SGD" THEN Return(price)
    ELSE Return(JsDiv(price, FromJson(Dec(2, 0))))

\* the rate a branch derives from the price it read (lines 57, 64, 72, 79,
\* 88-97)
FxRateOf(branch, price) ==
    IF branch \in {"USD-BTN", "USD-SGD"} THEN Return(price)
    ELSE IF branch \in {"BTN-USD", "SGD-USD"} THEN Return(JsDiv(One, price))
    ELSE IF ~IsNumber(price) \/ isNaN(price)
    THEN Throw("BTN/SGD rate missing in /fx")
    ELSE IF branch = "BTN-SGD" THEN Return(price)
    ELSE Return(JsDiv(One, price))

\* a branch from its await on: fetch, res.ok, res.json(), the price, the rate
FxAfterFetch(branch, r) ==
    IF r.kind = "neterr" THEN Throw("fetch failed")
    ELSE IF r.kind = "status" THEN Throw(FxStatusError(branch))
    ELSE IF r.kind = "badjson" THEN Throw("Unexpected token in JSON")
    ELSE IF r.data.t = "null" THEN Throw("Cannot read properties of null")
    ELSE FxRateOf(branch, FromJson(r.data.price))

\* ------------------------------------------------------------------------
\* POST /api/convert
\* ------------------------------------------------------------------------
\* lines 180-199: the response for getFxRateFromFioog's outcome
ConvertRespond(body, amt, outcome) ==
    IF outcome.threw THEN Failed(FxFailedMsg, outcome.error)
    ELSE Answered([from      |-> body.from,
                   to        |-> body.to,
                   amount    |-> amt,
                   converted |-> JsMul(amt, outcome.value),
                   rate      |-> outcome.value,
                   source    |-> "FioogAPI (Google Finance scraper)"])

\* lines 164-179 and getFxRateFromFioog up to its first await: the response,
\* or the URL fetched
ConvertBegin(body) ==
    LET amt == parseFloat(body.amount)
        F   == toUpperCase(body.from.s)
        T   == toUpperCase(body.to.s)
        branch == FxBranch(F, T)
    IN  IF amt.t = "NaN" \/ amt.n <= 0
        THEN [done |-> TRUE, res |-> Rejected(InvalidAmountMsg)]
        ELSE IF Falsy(body.from) \/ Falsy(body.to)
        THEN [done |-> TRUE, res |-> Rejected(MissingCurrencyMsg)]
        ELSE IF body.from.t # "string"
        THEN [done |-> TRUE,
              res |-> Failed(FxFailedMsg, "from.toUpperCase is not a function")]
        ELSE IF body.to.t # "string"
        THEN [done |-> TRUE,
              res |-> Failed(FxFailedMsg, "to.toUpperCase is not a function")]
        ELSE IF branch = "identity"
        THEN [done |-> TRUE,
              res |-> ConvertRespond(body, FromJson(amt), Return(One))]
        ELSE IF branch = "unsupported"
        \* line 101; the message also quotes from and to
        THEN [done |-> TRUE,
              res |-> Failed(FxFailedMsg, "FX pair not supported by FioogAPI")]
        ELSE [done |-> FALSE, url |-> FxUrl(branch)]

\* ConvertEnd with a rate of 1 substituted when getFxRateFromFioog throws
ConvertEndFallback(body, r) ==
    LET outcome == FxAfterFetch(FxBranch(toUpperCase(body.from.s),
                                         toUpperCase(body.to.s)), r)
    IN  ConvertRespond(body, FromJson(parseFloat(body.amount)),
                       IF outcome.threw THEN Return(One) ELSE outcome)

\* the handler from its await on
ConvertEnd(body, r) ==
    ConvertRespond(body, FromJson(parseFloat(body.amount)),
                   FxAfterFetch(FxBranch(toUpperCase(body.from.s),
                                         toUpperCase(body.to.s)), r))

\* ------------------------------------------------------------------------
\* POST /api/convert of the static rate table (the server kept beside app.js)
\* ------------------------------------------------------------------------
UnsupportedCurrencyMsg == "Unsupported currency. Use SGD, USD or BTN."

\* FX_RATES[key]: units per 1 SGD, undefined for any other key
FX_RATES(key) ==
    IF key.t = "string" /\ key.s = SGD THEN FromJson(Dec(1, 0))
    ELSE IF key.t = "string" /\ key.s = USD THEN FromJson(Dec(75, 2))
    ELSE IF key.t = "string" /\ key.s = BTN THEN FromJson(Dec(61, 0))
    ELSE Undef

\* the whole handler
ConvertStaticHandler(body) ==
    LET amt         == parseFloat(body.amount)
        amountInSgd == JsDiv(FromJson(amt), FX_RATES(body.from))
    IN  IF amt.t = "NaN" \/ amt.n <= 0
        THEN Rejected(InvalidAmountMsg)
        ELSE IF Falsy(FX_RATES(body.from)) \/ Falsy(FX_RATES(body.to))
        THEN Rejected(UnsupportedCurrencyMsg)
        ELSE Answered([from      |-> body.from,
                       to        |-> body.to,
                       amount    |-> FromJson(amt),
                       converted |-> JsMul(amountInSgd, FX_RATES(body.to)),
                       rate      |-> JsDiv(FX_RATES(body.to), FX_RATES(body.from))])

\* ------------------------------------------------------------------------
\* GET /api/coins/latest
\* ------------------------------------------------------------------------
CoinsUrl == "https://api.coingecko.com/api/v3/simple/price?ids=tether%2Cethereum%2Cusd-coin%2Csolana&vs_currencies=usd%2Csgd"

\* CoinsOut with a null-filled entry for a symbol the payload lacks
CoinsOutNullFilled(raw) ==
    [c \in Symbols |->
        IF Falsy(raw[COINS[c]]) THEN [usd |-> Null, sgd |-> Null]
        ELSE [usd |-> raw[COINS[c]].usd, sgd |-> raw[COINS[c]].sgd]]

\* lines 270-279: the upstream object raw, keyed by coin id, keyed by symbol
CoinsOut(raw) ==
    [c \in {x \in Symbols : ~Falsy(raw[COINS[x]])} |->
        [usd |-> raw[COINS[c]].usd, sgd |-> raw[COINS[c]].sgd]]

\* CoinsEnd without the res.ok check of line 263: a failed status is read as
\* a payload with no entries
CoinsEndUnchecked(r) ==
    IF r.kind = "neterr" THEN Failed(CoinsFailedMsg, "fetch failed")
    ELSE IF r.kind = "status" THEN Answered([c \in {} |-> Undef])
    ELSE IF r.kind = "badjson" THEN Failed(CoinsFailedMsg, "Unexpected token in JSON")
    ELSE IF r.data.t = "null"
    THEN Failed(CoinsFailedMsg, "Cannot read properties of null")
    ELSE Answered(CoinsOut(r.data.raw))

\* lines 263-292
CoinsEnd(r) ==
    IF r.kind = "neterr" THEN Failed(CoinsFailedMsg, "fetch failed")
    ELSE IF r.kind = "status" THEN Failed(CoinsFailedMsg, "CoinGecko API error")
    ELSE IF r.kind = "badjson" THEN Failed(CoinsFailedMsg, "Unexpected token in JSON")
    ELSE IF r.data.t = "null"
    THEN Failed(CoinsFailedMsg, "Cannot read properties of null")
    ELSE Answered(CoinsOut(r.data.raw))

\* ------------------------------------------------------------------------
\* Inputs
\* ------------------------------------------------------------------------
Alphabet == {"0", "1", "5", ".", "-", "x"}
Strings(n) == {Str(s) : s \in UNION {[1..m -> Alphabet] : m \in 0..n}}

\* req.body.principal
PrincipalInputs ==
    {Undef} \cup Strings(MaxStrLen)
            \cup {Dec(n, k) : n \in (0 - 1)..MaxNum, k \in 0..MaxScale}

\* req.body.marketValue
MarketInputs ==
    {Undef} \cup Strings(MaxShortLen)
            \cup {Dec(0 - 1, 0), Dec(0, 0), Dec(5, 1), Dec(3, 0), Dec(100, 0)}

\* req.body.amount
AmountInputs ==
    {Undef, Str(<<>>), Str(<<"x">>), Str(<<"5">>), Str(<<"1", "x">>),
     Dec(0 - 1, 0), Dec(0, 0), Dec(15, 1), Dec(21, 2)}

\* req.body.from and req.body.to
CodeInputs ==
    {Undef, Str(<<>>), Dec(5, 0), Str(USD), Str(BTN), Str(SGD),
     Str(<<"u", "s", "d">>), Str(<<"E", "U", "R">>)}

\* the price member of a FioogAPI body
Prices ==
    {Undef, Null, Str(<<"5">>), Dec(0, 0)}
        \cup {Dec(n, k) : n \in 1..MaxQuote, k \in 0..MaxQuoteScale}

FxReplies == {NetworkError, BadStatus, BadJson, Json(Null)}
                 \cup {Json(Quote(v)) : v \in Prices}

\* CoinGecko's entry for a coin id: none, null, or an object with usd and sgd
CoinEntries ==
    {Undef, Null}
        \cup {[t |-> "object", usd |-> u, sgd |-> g] :
                 u \in {Undef, Dec(1, 0)}, g \in {Undef, Dec(2, 0)}}

CoinsReplies == {NetworkError, BadStatus, BadJson, Json(Null)}
                    \cup {Json([t |-> "object", raw |-> raw]) :
                             raw \in [CoinIds -> CoinEntries]}

\* ------------------------------------------------------------------------
\* The server
\* ------------------------------------------------------------------------
VARIABLES
    pc,         \* the handler: "idle", "fetching" (at its await) or "done"
    req,        \* the request being handled
    fetched,    \* the URLs the handler has fetched
    reply,      \* what the fetch settled to
    sent,       \* the responses the handler has sent
    divisions   \* the times the handler has divided by MV

vars == <<pc, req, fetched, reply, sent, divisions>>

Init ==
    /\ pc = "idle"
    /\ req = [route |-> "none"]
    /\ fetched = <<>>
    /\ reply = NoReply
    /\ sent = <<>>
    /\ divisions = 0

\* POST /api/calc: the handler runs to its response
Calc ==
    /\ pc = "idle"
    /\ \E p \in PrincipalInputs, m \in MarketInputs :
          LET body == [principal |-> p, marketValue |-> m]
              h    == CalcHandler(body)
          IN  /\ req' = [route |-> "calc", body |-> body]
              /\ sent' = <<h.res>>
              /\ divisions' = IF h.divided THEN 1 ELSE 0
    /\ pc' = "done"
    /\ fetched' = <<>>
    /\ reply' = NoReply

\* POST /api/convert: the handler runs to its response or to its fetch
ConvertStart ==
    /\ pc = "idle"
    /\ \E f \in CodeInputs, t \in CodeInputs, a \in AmountInputs :
          LET body == [from |-> f, to |-> t, amount |-> a]
              b    == ConvertBegin(body)
          IN  /\ req' = [route |-> "convert", body |-> body]
              /\ IF b.done
                 THEN pc' = "done" /\ sent' = <<b.res>> /\ fetched' = <<>>
                 ELSE pc' = "fetching" /\ sent' = <<>> /\ fetched' = <<b.url>>
    /\ reply' = NoReply
    /\ divisions' = 0

\* the fetch of /api/convert settles and the handler runs to its response
ConvertResume ==
    /\ pc = "fetching"
    /\ req.route = "convert"
    /\ \E r \in FxReplies :
          /\ reply' = r
          /\ sent' = Append(sent, ConvertEnd(req.body, r))
    /\ pc' = "done"
    /\ UNCHANGED <<req, fetched, divisions>>

\* POST /api/convert of the static rate table: the handler runs to its response
ConvertStatic ==
    /\ pc = "idle"
    /\ \E f \in CodeInputs, t \in CodeInputs, a \in AmountInputs :
          LET body == [from |-> f, to |-> t, amount |-> a]
          IN  /\ req' = [route |-> "convertStatic", body |-> body]
              /\ sent' = <<ConvertStaticHandler(body)>>
    /\ pc' = "done"
    /\ fetched' = <<>>
    /\ reply' = NoReply
    /\ divisions' = 0

\* GET /api/coins/latest: the handler runs to its fetch
CoinsStart ==
    /\ pc = "idle"
    /\ req' = [route |-> "coins"]
    /\ pc' = "fetching"
    /\ fetched' = <<CoinsUrl>>
    /\ sent' = <<>>
    /\ reply' = NoReply
    /\ divisions' = 0

\* the fetch of /api/coins/latest settles and the handler runs to its response
CoinsResume ==
    /\ pc = "fetching"
    /\ req.route = "coins"
    /\ \E r \in CoinsReplies :
          /\ reply' = r
          /\ sent' = Append(sent, CoinsEnd(r))
    /\ pc' = "done"
    /\ UNCHANGED <<req, fetched, divisions>>

\* the handler has returned: nothing of the request is kept
Finish ==
    /\ pc = "done"
    /\ pc' = "idle"
    /\ req' = [route |-> "none"]
    /\ fetched' = <<>>
    /\ reply' = NoReply
    /\ sent' = <<>>
    /\ divisions' = 0

Next ==
    \/ Calc
    \/ ConvertStart
    \/ ConvertResume
    \/ ConvertStatic
    \/ CoinsStart
    \/ CoinsResume
    \/ Finish

Spec == Init /\ [][Next]_vars


\* ------------------------------------------------------------------------
\* Properties
\* ------------------------------------------------------------------------
SupportedCodes == {USD, SGD, BTN}

\* the handler of app.js's /api/convert has sent its response
ConvertDone == pc = "done" /\ req.route = "convert"
\* the handler of /api/calc has sent its response
CalcDone == pc = "done" /\ req.route = "calc"
\* the handler of /api/coins/latest has sent its response
CoinsDone == pc = "done" /\ req.route = "coins"

\* a body field parses to a number above zero
Positive(v) == parseFloat(v).t = "number" /\ parseFloat(v).n > 0

\* a currency code of the supported set, in either case
Supported(v) == v.t = "string" /\ toUpperCase(v.s) \in SupportedCodes

\* from and to are both supported and differ
SupportedPair(body) ==
    /\ Supported(body.from)
    /\ Supported(body.to)
    /\ toUpperCase(body.from.s) # toUpperCase(body.to.s)

\* from and to are given and one of them is outside the supported set
UnsupportedRequest(body) ==
    /\ ~Falsy(body.from)
    /\ ~Falsy(body.to)
    /\ ~Supported(body.from) \/ ~Supported(body.to)

\* C1: a /api/convert request with a valid positive amount and non-empty from
\* and to, one of them outside {USD, SGD, BTN}, is answered 400 with a message
\* naming the supported set, never 500 or 200.
C1_UnsupportedCodeIs400 ==
    (ConvertDone /\ Positive(req.body.amount) /\ UnsupportedRequest(req.body))
        => /\ Len(sent) = 1
           /\ sent[1].status = 400
           /\ sent[1].message = UnsupportedCurrencyMsg

\* the upstream answered 2xx with a JSON object whose price member is not a
\* number: missing, null or a string
PriceNotNumber ==
    /\ reply.kind = "json"
    /\ reply.data.t = "object"
    /\ reply.data.price.t # "number"

\* C2: for every supported non-identity pair, when the upstream answers 2xx
\* but the price is missing or not a number, /api/convert answers 500 and no
\* 200 carrying a rate derived from it is sent.
C2_BadPriceIs500 ==
    (ConvertDone /\ PriceNotNumber)
        => /\ Len(sent) = 1
           /\ sent[1].status = 500

\* the request fails local validation: the amount is not a positive number,
\* from or to is missing, or the pair is unsupported
LocallyInvalid(body) ==
    \/ ~Positive(body.amount)
    \/ Falsy(body.from)
    \/ Falsy(body.to)
    \/ UnsupportedRequest(body)

\* C3: every local validation failure of /api/convert is decided before any
\* upstream request: no URL has been fetched and the response is 400-class.
C3_ValidationBeforeUpstream ==
    (ConvertDone /\ LocallyInvalid(req.body))
        => /\ fetched = <<>>
           /\ Len(sent) = 1
           /\ sent[1].status \in 400..499

\* an /api/convert handler of the repository has sent its response: the
\* rate-fetching one, or the one of the static rate table
AnyConvertDone == pc = "done" /\ req.route \in {"convert", "convertStatic"}

\* a request with a valid amount whose from and to are the same supported code
IdentityRequest(body) ==
    /\ Positive(body.amount)
    /\ body.from.t = "string"
    /\ body.from.s \in SupportedCodes
    /\ body.to = body.from

\* C4: for every supported code X, a valid /api/convert request with from and
\* to both X is answered 200 with rate exactly 1 and converted equal to the
\* amount, and no upstream request is issued for it.
C4_IdentityRateIsOne ==
    (AnyConvertDone /\ IdentityRequest(req.body))
        => /\ fetched = <<>>
           /\ reply = NoReply
           /\ Len(sent) = 1
           /\ sent[1].status = 200
           /\ sent[1].data.rate = One
           /\ sent[1].data.amount = FromJson(parseFloat(req.body.amount))
           /\ sent[1].data.converted = sent[1].data.amount

\* The reference breakdown of the claim, in integers: a principal n / 10^k has
\* commission 3n / 10^(k+2), the fixed fee is 99 * (100 + 9) / 10^4, the net is
\* their difference from the principal at scale k + 4.
RefCommission(P) == Dec(3 * P.n, P.k + 2)
RefFixedFee == Dec(99 * (100 + 9), 4)
RefNet(P) ==
    Dec(P.n * 10000 - 3 * P.n * 100 - 99 * (100 + 9) * Pow10(P.k), P.k + 4)
RefCharged(P) == Dec(P.n * 100 + 3 * P.n, P.k + 2)

\* principal and marketValue both parse to numbers above zero
CalcValid(body) == Positive(body.principal) /\ Positive(body.marketValue)

\* C5: for every principal P >= 10 and market value M > 0 with commission plus
\* fixed fee below P, /api/calc answers 200 with commissionAmount = P * 0.03,
\* totalFixedFee = 0.99 * 1.09, amountForCrypto = P - commission - fixed fee,
\* coins = amountForCrypto / M and totalCharged = P + commission (the flat fee
\* and GST are not added); P = 10, M = 100 gives 0.30, 1.0791, 8.6209,
\* 0.086209 and 10.30.
C5_FeeBreakdown ==
    LET P == parseFloat(req.body.principal)
        M == parseFloat(req.body.marketValue)
        d == sent[1].data
    IN  (CalcDone /\ CalcValid(req.body) /\ DecLe(Dec(10, 0), P)
                  /\ RefNet(P).n > 0)
            => /\ Len(sent) = 1
               /\ sent[1].status = 200
               /\ d.principal = P
               /\ d.marketValue = M
               /\ d.commissionAmount = RefCommission(P)
               /\ d.totalFixedFee = RefFixedFee
               /\ d.amountForCrypto = RefNet(P)
               /\ d.coins = DecDiv(RefNet(P), M)
               /\ d.totalCharged = RefCharged(P)
               /\ (P = Dec(10, 0) /\ M = Dec(100, 0)) =>
                     /\ d.commissionAmount = Dec(30, 2)
                     /\ d.gstAmount = Dec(891, 4)
                     /\ d.totalFixedFee = Dec(10791, 4)
                     /\ d.amountForCrypto = Dec(86209, 4)
                     /\ d.coins = DecDiv(Dec(86209, 6), Dec(1, 0))
                     /\ d.totalCharged = Dec(1030, 2)

C5_Witness ==
    /\ CalcDone
    /\ parseFloat(req.body.principal) = Dec(10, 0)
    /\ parseFloat(req.body.marketValue) = Dec(100, 0)
    /\ sent[1].status = 200

\* a valid request whose principal does not exceed commission plus fixed fee
FeesCoverPrincipal(body) ==
    CalcValid(body) /\ RefNet(parseFloat(body.principal)).n <= 0

\* C6 as claimed: a /api/calc request whose principal is positive but does
\* not exceed commission plus total fixed fee (P = 1.05) is rejected with the
\* FeesExceedPrincipal message, and no division by marketValue is performed.
C6_FeesExceedRejected ==
    (CalcDone /\ FeesCoverPrincipal(req.body))
        => /\ sent = <<Rejected(FeesExceedMsg)>>
           /\ divisions = 0

\* C6 as amended: such a request is rejected 400 without a division, with
\* the minimum-principal message: the minimum is checked first, and every
\* principal the default fees cover (P = 1.05) is below the minimum of 10.
C6_RejectedMinimumFirst ==
    (CalcDone /\ FeesCoverPrincipal(req.body))
        => /\ DecLt(parseFloat(req.body.principal), Dec(10, 0))
           /\ sent = <<Rejected(BelowMinimumMsg)>>
           /\ divisions = 0

C6_Witness ==
    /\ CalcDone
    /\ req.body.principal = Dec(105, 2)
    /\ FeesCoverPrincipal(req.body)
    /\ sent = <<Rejected(BelowMinimumMsg)>>

\* the pair of the request, reversed
Reversed(body) == FxBranch(toUpperCase(body.to.s), toUpperCase(body.from.s))

\* the upstream answered 2xx with a positive quote and the rate was returned
PositiveQuote ==
    /\ ConvertDone
    /\ reply.kind = "json"
    /\ reply.data.t = "object"
    /\ reply.data.price.t = "number"
    /\ reply.data.price.n > 0
    /\ sent[1].status = 200

\* the rate sent times the rate of the reversed pair read from the same quote
RoundTrip ==
    JsMul(sent[1].data.rate,
          FxRateOf(Reversed(req.body), FromJson(reply.data.price)).value)

\* C7 as claimed: for a positive quote q, getRate(USD, Y) * getRate(Y, USD) = 1
\* when both directions read q, and likewise for BTN/SGD and SGD/BTN.
C7_RoundTripIsOne == PositiveQuote => RoundTrip = One

\* the double just below 1: 1 - 2^-53
OneMinusHalfUlp == F64(FALSE, [i \in 1..MantBits |-> 1], 0 - MantBits)

\* C7 as amended: the product is 1 within floating tolerance: it is 1 or the
\* double just below 1, |product - 1| <= 2^-53.
C7_RoundTripNearOne == PositiveQuote => RoundTrip \in {One, OneMinusHalfUlp}

C7_Witness ==
    /\ PositiveQuote
    /\ reply.data.price = Dec(9, 2)
    /\ RoundTrip = OneMinusHalfUlp

\* the coin price request failed: no connection, or a status that is not 2xx
CoinsUpstreamFailed == reply.kind \in {"neterr", "status"}

\* C8: when CoinGecko answers the batched request with a non-2xx status, or
\* the call fails, the response is 500 with ok false; no 200 is sent.
C8_CoinsFailureIs500 ==
    (CoinsDone /\ CoinsUpstreamFailed)
        => /\ Len(sent) = 1
           /\ sent[1].status = 500
           /\ sent[1].ok = FALSE

C8_Witness ==
    /\ CoinsDone
    /\ reply = BadStatus
    /\ sent[1].status = 500

\* the upstream object has an entry for the coin id (an entry of null holds
\* no prices and counts as none)
HasEntry(raw, id) == raw[id].t = "object"

\* C9: on a 2xx JSON object from CoinGecko the response is 200 and the
\* snapshot has a key for a symbol exactly when the payload has an entry for
\* its coin id, with the entry's usd and sgd; a symbol without an entry is
\* omitted, not null-filled, and does not fail the batch.
C9_SnapshotKeys ==
    (CoinsDone /\ reply.kind = "json" /\ reply.data.t = "object")
        => /\ Len(sent) = 1
           /\ sent[1].status = 200
           /\ \A c \in Symbols :
                 /\ c \in DOMAIN sent[1].data <=> HasEntry(reply.data.raw, COINS[c])
                 /\ c \in DOMAIN sent[1].data =>
                       /\ sent[1].data[c].usd = reply.data.raw[COINS[c]].usd
                       /\ sent[1].data[c].sgd = reply.data.raw[COINS[c]].sgd

C9_Witness ==
    /\ CoinsDone
    /\ reply.kind = "json"
    /\ reply.data.t = "object"
    /\ reply.data.raw["tether"] = Undef
    /\ reply.data.raw["ethereum"].t = "object"
    /\ sent[1].status = 200
    /\ DOMAIN sent[1].data = Symbols \ {"usdt"}

\* the quote request failed: no connection, or a status that is not 2xx
FxUpstreamFailed == reply.kind \in {"neterr", "status"}

\* C10: a /api/convert request that passed validation for a supported
\* non-identity pair issues exactly one upstream request, to its pair's
\* endpoint; when that request fails there is no second request and no
\* fallback rate, and the one response sent is 500 with the generic message
\* and the error's detail.
C10_OneRequestNoRetry ==
    (req.route = "convert" /\ Positive(req.body.amount) /\ SupportedPair(req.body))
        => /\ pc \in {"fetching", "done"}
           /\ Len(fetched) = 1
           /\ pc = "fetching" => sent = <<>>
           /\ pc = "done" => Len(sent) = 1
           /\ (pc = "done" /\ FxUpstreamFailed) =>
                 /\ sent[1].status = 500
                 /\ sent[1].ok = FALSE
                 /\ sent[1].message = FxFailedMsg
                 /\ sent[1].error \in {"fetch failed",
                                       "FioogAPI error for USD-BTN",
                                       "FioogAPI error for USD-SGD",
                                       "FioogAPI error for /fx"}

C10_Witness ==
    /\ ConvertDone
    /\ SupportedPair(req.body)
    /\ reply = NetworkError
    /\ Len(fetched) = 1
    /\ sent[1].status = 500

=============================================================================
